---- MODULE Spec2Model ----
(***************************************************************************)
(* Model of gdsfactory/components/mzi.py: the cached mzi factory and the   *)
(* step by step assembly of the two interferometer arms.                   *)
(*                                                                         *)
(* Lengths and coordinates are integers in units of 0.1 um.  Every value   *)
(* the code halves (delta_length, the port offsets) is drawn from even     *)
(* numbers, so that Python's true division `/ 2` is exact in the model.    *)
(* All angles are multiples of 90 degrees.                                 *)
(***************************************************************************)
EXTENDS Integers, Sequences, FiniteSets, TLC

\* ---- bounds of the explored input space
MaxGap       == 2   \* port half-gaps of splitters are 2, 4, .., 2*MaxGap
MaxLengthY   == 3   \* length_y in 1..MaxLengthY
MaxDeltaHalf == 1   \* delta_length in {0, 2, .., 2*MaxDeltaHalf}
MaxCalls     == 2   \* number of calls of mzi made by the callers

Gaps == {2 * k : k \in 1..MaxGap}

\* the default of length_x, 0.1 um
DefaultLengthX == 1

\* ---- geometry helpers -------------------------------------------------

Abs(v) == IF v < 0 THEN -v ELSE v

\* the optical layer, the default of the `layer` argument (1, 0)
WG == "WG"

Port(px, py, a) == [x |-> px, y |-> py, angle |-> a, layer |-> WG]

\* rotation of the vector (vx, vy) by a multiple of 90 degrees, counter-clockwise
RotX(vx, vy, a) == CASE a = 0 -> vx [] a = 90 -> -vy [] a = 180 -> -vx [] a = 270 -> vy
RotY(vx, vy, a) == CASE a = 0 -> vy [] a = 90 -> vx [] a = 180 -> -vy [] a = 270 -> -vx

\* ---- leaf factories (external collaborators) ---------------------------

\* a splitter/combiner kind: n ports, east half-gap g, west half-gap w.
\* Ports are numbered clockwise starting at the west side: a 1x2 has its
\* single west port 1 and the east ports 2 (top), 3 (bottom); a 2x2 has the
\* west ports 1 (bottom), 2 (top), 0.4 um apart, and the east ports 3 (top),
\* 4 (bottom).
SplitterKinds ==
    [n : {3}, g : Gaps, w : {0}] \cup [n : {4}, g : Gaps, w : {2}]

NoCombiner == [n |-> 0, g |-> 0, w |-> 0]

mmi(kind) ==
    [ports |-> IF kind.n = 3
                 THEN << Port(0, 0, 180), Port(6, kind.g, 0), Port(6, -kind.g, 0) >>
                 ELSE << Port(0, -kind.w, 180), Port(0, kind.w, 180),
                         Port(6, kind.g, 0), Port(6, -kind.g, 0) >>,
     length |-> 6]

\* 90 degree bend: port 1 at the origin facing west, port 2 facing north
bend_euler ==
    [ports |-> << Port(0, 0, 180), Port(3, 3, 90) >>, length |-> 5]

\* straight waveguide of the given length: port 1 west, port 2 east
straight_function(len) ==
    [ports |-> << Port(0, 0, 180), Port(len, 0, 0) >>, length |-> len]

\* ---- references and the connection solver ------------------------------

\* c << component, component.ref(): a reference with the identity transform
Ref(comp) == [ports |-> comp.ports, length |-> comp.length,
              x |-> 0, y |-> 0, rot |-> 0]

HasPort(r, k) == k \in 1..Len(r.ports)

\* reference.ports[k]: the port of the referenced component under the transform
WorldPort(r, k) ==
    LET p == r.ports[k] IN
    Port(r.x + RotX(p.x, p.y, r.rot), r.y + RotY(p.x, p.y, r.rot),
         (p.angle + r.rot) % 360)

ConnectNoFlip(r, k, dest) ==
    LET p  == WorldPort(r, k)
        da == (dest.angle - p.angle + 360) % 360
        ox == p.x + RotX(r.x - p.x, r.y - p.y, da)
        oy == p.y + RotY(r.x - p.x, r.y - p.y, da)
    IN [r EXCEPT !.rot = (r.rot + da) % 360,
                 !.x = ox + (dest.x - p.x),
                 !.y = oy + (dest.y - p.y)]

\* reference.connect(port=k, destination=dest): rotate about the port so that
\* it faces the destination, then move the port onto the destination
Connect(r, k, dest) ==
    LET p  == WorldPort(r, k)
        da == (dest.angle - p.angle + 180 + 360) % 360
        ox == p.x + RotX(r.x - p.x, r.y - p.y, da)
        oy == p.y + RotY(r.x - p.x, r.y - p.y, da)
    IN [r EXCEPT !.rot = (r.rot + da) % 360,
                 !.x = ox + (dest.x - p.x),
                 !.y = oy + (dest.y - p.y)]

\* reference.get_ports_list(layers_excluded=excluded): keys of the ports
\* that are not on an excluded layer
get_ports_list(r, excluded) ==
    {k \in 1..Len(r.ports) : r.ports[k].layer \notin excluded}

\* ---- factory cache (the cell decorator) ---------------------------------

\* keyword arguments as the caller wrote them: a sequence of <<name, value>>.
\* The same settings can be written in either order.
KwargForms(e, dlen, ws) ==
    LET fixed == << <<"splitter", e.splitter>>, <<"combiner", e.combiner>>,
                    <<"length_x", DefaultLengthX>> >>
        a == << <<"delta_length", dlen>> >>
        b == << <<"length_y", e.length_y>> >>
        c == << <<"with_splitter", ws>> >>
    IN { a \o b \o fixed \o c, c \o fixed \o b \o a }

\* canonical form of the keyword arguments: a mapping from name to value
NormalizeParams(kw) ==
    [nm \in {kw[i][1] : i \in 1..Len(kw)} |->
        (CHOOSE pr \in {kw[i] : i \in 1..Len(kw)} : pr[1] = nm)[2]]

CacheKey(kw) == << "mzi", NormalizeParams(kw) >>

\* ---- state --------------------------------------------------------------

VARIABLES
    env,        \* settings shared by all calls of one run: splitter, combiner, ..
    cache,      \* the factory cache: key -> the published Component
    nextId,     \* identity the next constructed Component gets
    runs,       \* key -> number of times the body of mzi ran for it
    returned,   \* what the callers got: set of [key, comp]
    ncalls,     \* calls made so far
    calls,      \* key -> number of calls made with it
    pc,         \* position of the running build, "idle" if none
    args,       \* normalized arguments of the running build
    key,        \* cache key of the running build
    comps,      \* sub-components made so far: cp1, cp2, b90, l0, l0r, l1, lxt, lxb
    e1_port_name, e0_port_name,
    dl, dr, delta_length_combiner,
    refs,       \* references created so far: name -> reference
    crefs,      \* names of the references that belong to the component c
    cports,     \* ports of c: set of [name, x, y, angle]
    aliases,    \* c.aliases
    step,       \* index of the next connect call of the current arm
    err,        \* kind of the error being raised, "" if none
    lastConnect \* the connect call made by the last step, if any

cvars == << env, cache, nextId, runs, returned, ncalls, calls >>
bvars == << args, key, comps, e1_port_name, e0_port_name, dl, dr,
            delta_length_combiner, refs, crefs, cports, aliases, step, err,
            lastConnect >>
vars == << cvars, pc, bvars >>

Deltas   == {2 * k : k \in 0..MaxDeltaHalf}
LengthYs == 1..MaxLengthY

Envs == [splitter : SplitterKinds, combiner : SplitterKinds \cup {NoCombiner},
         length_y : LengthYs]

Empty == << >>

NoConnect == [valid |-> FALSE, ref |-> "", port |-> 0,
              dest |-> Port(0, 0, 0), before |-> Port(0, 0, 0), rot |-> 0]

NoBuild ==
    /\ args = Empty /\ key = Empty /\ comps = Empty
    /\ e1_port_name = 0 /\ e0_port_name = 0
    /\ dl = 0 /\ dr = 0 /\ delta_length_combiner = 0
    /\ refs = Empty /\ crefs = {} /\ cports = {} /\ aliases = {}
    /\ step = 0 /\ err = "" /\ lastConnect = NoConnect

Init ==
    /\ env \in Envs
    /\ cache = Empty /\ nextId = 1 /\ runs = Empty
    /\ returned = {} /\ ncalls = 0 /\ calls = Empty
    /\ pc = "idle"
    /\ NoBuild

ResetBuild ==
    /\ args' = Empty /\ key' = Empty /\ comps' = Empty
    /\ e1_port_name' = 0 /\ e0_port_name' = 0
    /\ dl' = 0 /\ dr' = 0 /\ delta_length_combiner' = 0
    /\ refs' = Empty /\ crefs' = {} /\ cports' = {} /\ aliases' = {}
    /\ step' = 0 /\ err' = "" /\ lastConnect' = NoConnect

\* ---- the cached factory: entry ------------------------------------------

CacheHit(k) == k \in DOMAIN cache

Bump(f, k) == IF k \in DOMAIN f THEN [f EXCEPT ![k] = @ + 1] ELSE f @@ (k :> 1)

\* the body of mzi runs on every call (the decorator is missing)
CallUndecorated ==
    /\ pc = "idle" /\ ncalls < MaxCalls
    /\ \E dlen \in Deltas, ws \in BOOLEAN :
       \E kw \in KwargForms(env, dlen, ws) :
         /\ pc' = "setup"
         /\ args' = NormalizeParams(kw)
         /\ key' = CacheKey(kw)
         /\ runs' = Bump(runs, CacheKey(kw))
         /\ calls' = Bump(calls, CacheKey(kw))
    /\ ncalls' = ncalls + 1
    /\ UNCHANGED << env, cache, nextId, returned, comps, e1_port_name,
                    e0_port_name, dl, dr, delta_length_combiner, refs, crefs,
                    cports, aliases, step, err, lastConnect >>

\* a caller invokes mzi(**kwargs): the decorated function looks the key up and
\* returns the published Component on a hit, and runs the body on a miss
Call ==
    /\ pc = "idle" /\ ncalls < MaxCalls
    /\ \E dlen \in Deltas, ws \in BOOLEAN :
       \E kw \in KwargForms(env, dlen, ws) :
         LET k == CacheKey(kw) IN
         /\ calls' = Bump(calls, k)
         /\ IF CacheHit(k)
              THEN /\ returned' = returned \cup {[key |-> k, comp |-> cache[k].id]}
                   /\ UNCHANGED << pc, args, key, runs >>
              ELSE /\ pc' = "setup"
                   /\ args' = NormalizeParams(kw)
                   /\ key' = k
                   /\ runs' = Bump(runs, k)
                   /\ UNCHANGED returned
    /\ ncalls' = ncalls + 1
    /\ UNCHANGED << env, cache, nextId, comps, e1_port_name, e0_port_name, dl, dr,
                    delta_length_combiner, refs, crefs, cports, aliases, step,
                    err, lastConnect >>

\* ---- the body of mzi ----------------------------------------------------

\* combiner = combiner or splitter
CombinerOr(combiner, splitter) == IF combiner = NoCombiner THEN splitter ELSE combiner

\* cp1, cp2, b90 and l0 are built
Setup ==
    /\ pc = "setup"
    /\ LET combiner == CombinerOr(args["combiner"], args["splitter"])
       IN comps' = ("cp1" :> mmi(args["splitter"])) @@ ("cp2" :> mmi(combiner))
                   @@ ("b90" :> bend_euler)
                   @@ ("l0" :> straight_function(args["length_y"]))
    /\ pc' = "offsets"
    /\ UNCHANGED << cvars, args, key, e1_port_name, e0_port_name, dl, dr,
                    delta_length_combiner, refs, crefs, cports, aliases, step,
                    err, lastConnect >>

CompHasPort(c, k) == k \in 1..Len(c.ports)

\* the port keys the offsets are read from exist
OffsetKeysExist(cp1, cp2) ==
    /\ CompHasPort(cp1, 2) /\ CompHasPort(cp2, 2)
    /\ CompHasPort(cp1, Len(cp1.ports) - 1)
    /\ CompHasPort(cp2, Len(cp1.ports) - 1)

\* y1l, y1r, e1_port_name, e0_port_name, y2l, y2r, dl, dr, delta_length_combiner
PortOffsets(cp1, cp2) ==
    LET y1l == cp1.ports[2].y
        y1r == cp2.ports[2].y
        e1  == Len(cp1.ports) - 1
        e0  == Len(cp1.ports)
        y2l == cp1.ports[e1].y
        y2r == cp2.ports[e1].y
    IN [e1 |-> e1, e0 |-> e0, dl |-> Abs(y2l - y1l), dr |-> Abs(y2r - y1r),
        dlc |-> Abs(y2l - y1l) - Abs(y2r - y1r)]

ResolveOffsets ==
    /\ pc = "offsets"
    /\ LET cp1 == comps["cp1"]
           cp2 == comps["cp2"]
       IN IF OffsetKeysExist(cp1, cp2)
            THEN LET o == PortOffsets(cp1, cp2)
                 IN /\ e1_port_name' = o.e1
                    /\ e0_port_name' = o.e0
                    /\ dl' = o.dl
                    /\ dr' = o.dr
                    /\ delta_length_combiner' = o.dlc
                    /\ pc' = "assert"
                    /\ UNCHANGED err
            ELSE /\ err' = "not_found"
                 /\ pc' = "raise"
                 /\ UNCHANGED << e1_port_name, e0_port_name, dl, dr,
                                 delta_length_combiner >>
    /\ UNCHANGED << cvars, args, key, comps, refs, crefs, cports, aliases, step,
                    lastConnect >>

ArmBalanceLoose(dlc, ly) == dlc + ly >= 0

ArmBalanceAlways(dlc, ly) == TRUE

\* the condition of the assertion
ArmBalanceOK(dlc, ly) == dlc + ly > 0

\* assert delta_length_combiner + length_y > 0
CheckArmBalance ==
    /\ pc = "assert"
    /\ IF ArmBalanceOK(delta_length_combiner, args["length_y"])
         THEN pc' = "straights" /\ UNCHANGED err
         ELSE pc' = "raise" /\ err' = "config"
    /\ UNCHANGED << cvars, args, key, comps, e1_port_name, e0_port_name, dl, dr,
                    delta_length_combiner, refs, crefs, cports, aliases, step,
                    lastConnect >>

\* the exception leaves the decorated function: nothing is registered
Raise ==
    /\ pc = "raise"
    /\ pc' = "idle"
    /\ ResetBuild
    /\ UNCHANGED cvars

Half(v) == v \div 2

ExtraLengthFull(delta_length) == delta_length

\* length of each of the two extra straights of the bottom arm
ExtraLength(delta_length) == Half(delta_length)

\* l0r, l1, lxt, lxb
BuildStraights ==
    /\ pc = "straights"
    /\ comps' = comps
         @@ ("l0r" :> straight_function(args["length_y"] + Half(delta_length_combiner)))
         @@ ("l1"  :> straight_function(ExtraLength(args["delta_length"])))
         @@ ("lxt" :> straight_function(args["length_x"]))
         @@ ("lxb" :> straight_function(args["length_x"]))
    /\ pc' = "top_refs"
    /\ UNCHANGED << cvars, args, key, e1_port_name, e0_port_name, dl, dr,
                    delta_length_combiner, refs, crefs, cports, aliases, step,
                    err, lastConnect >>

\* cin = cp1.ref(); cout = c << cp2; the references of the top arm
AddTopArm ==
    /\ pc = "top_refs"
    /\ refs' = ("cin" :> Ref(comps["cp1"])) @@ ("cout" :> Ref(comps["cp2"]))
               @@ ("blt" :> Ref(comps["b90"])) @@ ("bltl" :> Ref(comps["b90"]))
               @@ ("bltr" :> Ref(comps["b90"])) @@ ("blmr" :> Ref(comps["b90"]))
               @@ ("l0tl" :> Ref(comps["l0"])) @@ ("lxtop" :> Ref(comps["lxt"]))
               @@ ("l0tr" :> Ref(comps["l0r"]))
    /\ crefs' = {"cout", "blt", "bltl", "bltr", "blmr", "l0tl", "lxtop", "l0tr"}
    /\ step' = 1
    /\ pc' = "top_connect"
    /\ UNCHANGED << cvars, args, key, comps, e1_port_name, e0_port_name, dl, dr,
                    delta_length_combiner, cports, aliases, err, lastConnect >>

CCall(r, k, d, dk) == [ref |-> r, port |-> k, dst |-> d, dport |-> dk]

\* the connect calls of the top arm, in order
TopConnects ==
    << CCall("blt", 1, "cin", e1_port_name),
       CCall("l0tl", 1, "blt", 2),
       CCall("bltl", 2, "l0tl", 2),
       CCall("lxtop", 1, "bltl", 1),
       CCall("bltr", 2, "lxtop", Len(refs["lxtop"].ports)),
       CCall("l0tr", 1, "bltr", 1),
       CCall("blmr", 1, "l0tr", 2),
       CCall("cout", e0_port_name, "blmr", 2) >>

\* the connect calls of the bottom arm, in order
BotConnects ==
    << CCall("blb", 2, "cin", e0_port_name),
       CCall("l0bl", 1, "blb", 1),
       CCall("l1l", 1, "l0bl", 2),
       CCall("blbl", 1, "l1l", 2),
       CCall("lxbot", 1, "blbl", 2),
       CCall("brbr", 1, "lxbot", Len(refs["lxbot"].ports)),
       CCall("l1r", 1, "brbr", 2),
       CCall("l0br", 1, "l1r", 2),
       CCall("blbmrb", 2, "l0br", 2),
       CCall("blbmrb", 1, "cout", e1_port_name) >>

\* one connect call of the table; a port key that does not resolve raises
ConnectStep(table, nextpc) ==
    LET cc == table[step] IN
    /\ IF HasPort(refs[cc.ref], cc.port) /\ HasPort(refs[cc.dst], cc.dport)
         THEN LET dest == WorldPort(refs[cc.dst], cc.dport) IN
              /\ refs' = [refs EXCEPT ![cc.ref] = Connect(@, cc.port, dest)]
              /\ lastConnect' = [valid |-> TRUE, ref |-> cc.ref, port |-> cc.port,
                                 dest |-> dest,
                                 before |-> WorldPort(refs[cc.ref], cc.port),
                                 rot |-> refs[cc.ref].rot]
              /\ IF step = Len(table)
                   THEN pc' = nextpc /\ step' = 0
                   ELSE pc' = pc /\ step' = step + 1
              /\ UNCHANGED err
         ELSE /\ err' = "not_found"
              /\ pc' = "raise"
              /\ UNCHANGED << refs, lastConnect, step >>
    /\ UNCHANGED << cvars, args, key, comps, e1_port_name, e0_port_name, dl, dr,
                    delta_length_combiner, crefs, cports, aliases >>

ConnectTop == pc = "top_connect" /\ ConnectStep(TopConnects, "bot_refs")

\* the references of the bottom arm
AddBotArm ==
    /\ pc = "bot_refs"
    /\ refs' = refs
               @@ ("blb" :> Ref(comps["b90"])) @@ ("l0bl" :> Ref(comps["l0"]))
               @@ ("l1l" :> Ref(comps["l1"])) @@ ("blbl" :> Ref(comps["b90"]))
               @@ ("lxbot" :> Ref(comps["lxb"])) @@ ("brbr" :> Ref(comps["b90"]))
               @@ ("l1r" :> Ref(comps["l1"])) @@ ("l0br" :> Ref(comps["l0r"]))
               @@ ("blbmrb" :> Ref(comps["b90"]))
    /\ crefs' = crefs \cup {"blb", "l0bl", "l1l", "blbl", "lxbot", "brbr", "l1r",
                            "l0br", "blbmrb"}
    /\ step' = 1
    /\ pc' = "bot_connect"
    /\ lastConnect' = NoConnect
    /\ UNCHANGED << cvars, args, key, comps, e1_port_name, e0_port_name, dl, dr,
                    delta_length_combiner, cports, aliases, err >>

ConnectBot == pc = "bot_connect" /\ ConnectStep(BotConnects, "west")

\* ---- exposed ports -------------------------------------------------------

\* c.add_port(name=.., port=..): the port of a reference under a new name
Exposed(prefix, idx, p) ==
    [name |-> << prefix, idx >>, x |-> p.x, y |-> p.y, angle |-> p.angle,
     layer |-> p.layer]

NameClash(ps, qs) == \E p \in ps, q \in qs : p.name = q.name

\* with_splitter = False, with the exit port of the top bend exposed
ArmEntryPortsWrong ==
    { Exposed("", 2, WorldPort(refs["blt"], 2)),
      Exposed("", 1, WorldPort(refs["blb"], 2)) }

\* with_splitter = False: port 2 is blt.ports[1], port 1 is blb.ports[2]
ArmEntryPorts ==
    { Exposed("", 2, WorldPort(refs["blt"], 1)),
      Exposed("", 1, WorldPort(refs["blb"], 2)) }

\* west ports
ExposeWest ==
    /\ pc = "west"
    /\ IF args["with_splitter"]
         THEN /\ crefs' = crefs \cup {"cin"}
              /\ cports' = cports \cup
                   { Exposed("", k, WorldPort(refs["cin"], k)) :
                       k \in {j \in 1..Len(refs["cin"].ports) :
                                WorldPort(refs["cin"], j).angle = 180} }
         ELSE /\ cports' = cports \cup ArmEntryPorts
              /\ UNCHANGED crefs
    /\ pc' = "east"
    /\ lastConnect' = NoConnect
    /\ UNCHANGED << cvars, args, key, comps, e1_port_name, e0_port_name, dl, dr,
                    delta_length_combiner, refs, aliases, step, err >>

FacesWest(p) == p.angle = 180

\* the test that selects the east ports of the combiner
FacesEast(p) == p.angle = 0

\* east ports: "E{i}" for the i-th port of cout, counted from 0
ExposeEast ==
    /\ pc = "east"
    /\ LET new == { Exposed("E", k - 1, WorldPort(refs["cout"], k)) :
                      k \in {j \in 1..Len(refs["cout"].ports) :
                               FacesEast(WorldPort(refs["cout"], j))} }
       IN IF NameClash(new, cports)
            THEN err' = "collision" /\ pc' = "raise" /\ UNCHANGED cports
            ELSE cports' = cports \cup new /\ pc' = "finish" /\ UNCHANGED err
    /\ UNCHANGED << cvars, args, key, comps, e1_port_name, e0_port_name, dl, dr,
                    delta_length_combiner, refs, crefs, aliases, step,
                    lastConnect >>

\* c.add_ports(ref.get_ports_list(layers_excluded=(layer,)), prefix=..)
PrefixedPorts(r, prefix) ==
    { Exposed(prefix, k, WorldPort(r, k)) : k \in get_ports_list(r, {WG}) }

Rank(p, S) == Cardinality({q \in S : q.y < p.y}) + 1

\* auto_rename_ports: inputs and outputs are numbered by ascending position
\* across the direction of travel; ports of other layers keep their names
AutoRenamed(ps) ==
    LET west == {p \in ps : p.layer = WG /\ p.angle = 180}
        east == {p \in ps : p.layer = WG /\ p.angle = 0}
    IN { [p EXCEPT !.name = << "", Rank(p, west) >>] : p \in west }
       \cup { [p EXCEPT !.name = << "E", Rank(p, east) >>] : p \in east }
       \cup { p \in ps : p.layer # WG }

Ambiguous(ps) == \E p, q \in ps : p # q /\ p.name = q.name

\* non-optical ports of the horizontal straights, auto_rename_ports(c), the
\* aliases and c.auto_rename_ports()
Finish ==
    /\ pc = "finish"
    /\ LET dc  == PrefixedPorts(refs["lxtop"], "DC_top")
                  \cup PrefixedPorts(refs["lxbot"], "DC_bot")
           all == cports \cup dc
       IN IF NameClash(dc, cports) \/ Ambiguous(AutoRenamed(all))
            THEN err' = "collision" /\ pc' = "raise" /\ UNCHANGED << cports, aliases >>
            ELSE /\ cports' = AutoRenamed(AutoRenamed(all))
                 /\ aliases' = DOMAIN refs \ {"cin", "cout"}
                 /\ pc' = "return"
                 /\ UNCHANGED err
    /\ UNCHANGED << cvars, args, key, comps, e1_port_name, e0_port_name, dl, dr,
                    delta_length_combiner, refs, crefs, step, lastConnect >>

\* the decorated function freezes the finished Component, registers it under
\* the key and returns it
Publish ==
    /\ pc = "return"
    /\ cache' = (key :> [id |-> nextId, references |-> [a \in crefs |-> refs[a]],
                          ports |-> cports, aliases |-> aliases]) @@ cache
    /\ returned' = returned \cup {[key |-> key, comp |-> nextId]}
    /\ nextId' = nextId + 1
    /\ pc' = "idle"
    /\ ResetBuild
    /\ UNCHANGED << env, runs, ncalls, calls >>

Next ==
    \/ Call \/ Setup \/ ResolveOffsets \/ CheckArmBalance \/ BuildStraights
    \/ AddTopArm \/ ConnectTop \/ AddBotArm \/ ConnectBot
    \/ ExposeWest \/ ExposeEast \/ Finish \/ Publish \/ Raise

Spec == Init /\ [][Next]_vars

\* ---- properties ------------------------------------------------------------

PastAssert == {"straights", "top_refs", "top_connect", "bot_refs", "bot_connect",
               "west", "east", "finish", "return"}

West(ps) == {p \in ps : p.angle = 180}
East(ps) == {p \in ps : p.angle = 0}
Pos(p) == << p.x, p.y >>

\* p and q coincide face to face
Mated(p, q) == p.x = q.x /\ p.y = q.y /\ p.angle = (q.angle + 180) % 360

\* C1: the build is past the assertion only if delta_length_combiner +
\* length_y > 0; when the sum is <= 0 the configuration error is raised while
\* the new component has no reference, and nothing is returned for the key.
ArmBalanceCheck ==
    /\ pc \in PastAssert => delta_length_combiner + args["length_y"] > 0
    /\ (pc = "raise" /\ err = "config") =>
          /\ delta_length_combiner + args["length_y"] <= 0
          /\ refs = Empty /\ crefs = {} /\ cports = {}
          /\ key \notin DOMAIN cache
          /\ \A r \in returned : r.key # key

\* the case of the spec: delta_length_combiner = -0.2 and length_y = 0.1
ArmBalanceFails ==
    /\ pc = "raise" /\ err = "config"
    /\ delta_length_combiner = -2 /\ args["length_y"] = 1

\* C2: two returns for the same key are the same Component, two returns for
\* different keys are different Components, and the body ran once for every
\* key that is in the cache.
CacheIdentity ==
    /\ \A a, b \in returned : (a.key = b.key) <=> (a.comp = b.comp)
    /\ \A k \in DOMAIN cache : runs[k] = 1

\* a key was called twice, the second call was a hit
CacheHitHappened ==
    /\ pc = "idle"
    /\ \E k \in DOMAIN cache :
         calls[k] = 2 /\ runs[k] = 1 /\ [key |-> k, comp |-> cache[k].id] \in returned

\* what the arm-balance check decides for the parameters of a key
KeyBalance(k) ==
    LET a   == k[2]
        cp1 == mmi(a["splitter"])
        cp2 == mmi(CombinerOr(a["combiner"], a["splitter"]))
    IN PortOffsets(cp1, cp2).dlc + a["length_y"] > 0

\* C3: a key whose parameters violate the arm balance is never in the cache
\* and is never returned, and every call made with it ran the body again.
FailureNotCached ==
    /\ DOMAIN cache \subseteq DOMAIN calls
    /\ {r.key : r \in returned} \subseteq DOMAIN calls
    /\ \A k \in DOMAIN calls :
         ~KeyBalance(k) =>
            /\ k \notin DOMAIN cache
            /\ \A r \in returned : r.key # k
            /\ runs[k] = calls[k]
    /\ pc = "raise" => key \notin DOMAIN cache

\* the body runs a second time for a key that failed before
FailedKeyRetried ==
    /\ pc = "setup" /\ ~KeyBalance(key)
    /\ runs[key] = 2 /\ key \notin DOMAIN cache

DefaultBuild ==
    /\ pc = "return"
    /\ args["with_splitter"]
    /\ args["splitter"].n = 3
    /\ args["combiner"] = NoCombiner

\* C4 as stated: the default mzi exposes 2 input ports (180 degrees) and
\* 2 output ports (0 degrees).
DefaultPortsTwoTwo ==
    DefaultBuild =>
        /\ Cardinality(West(cports)) = 2
        /\ Cardinality(East(cports)) = 2

\* C4 amended: the mzi built from one 1x2 splitter, used as splitter and as
\* combiner, exposes exactly 1 input port (180 degrees) and exactly 1 output
\* port (0 degrees), and no other port.
DefaultPortsOneOne ==
    DefaultBuild =>
        /\ Cardinality(West(cports)) = 1
        /\ Cardinality(East(cports)) = 1
        /\ Cardinality(cports) = 2

DefaultBuilt == DefaultBuild /\ args["delta_length"] = 2

RECURSIVE PathLength(_)
\* sum of the lengths of a set of references
PathLength(S) ==
    IF S = {} THEN 0
    ELSE LET a == CHOOSE b \in S : TRUE IN refs[a].length + PathLength(S \ {a})

ArmRefs(table) == {table[i].ref : i \in 1..Len(table)} \ {"cin", "cout"}

Segment(a) == [ports |-> refs[a].ports, length |-> refs[a].length]

IndexOf(table, a) == CHOOSE i \in 1..Len(table) : table[i].ref = a

\* C5: the bottom arm is longer than the top arm by exactly delta_length; it
\* has the segments of the top arm and two more straights of length
\* delta_length / 2, l1l before and l1r after the horizontal run.
ArmLengthDifference ==
    pc = "return" =>
        LET top  == ArmRefs(TopConnects)
            bot  == ArmRefs(BotConnects)
            rest == bot \ {"l1l", "l1r"}
        IN /\ PathLength(bot) - PathLength(top) = args["delta_length"]
           /\ {"l1l", "l1r"} \subseteq bot
           /\ 2 * refs["l1l"].length = args["delta_length"]
           /\ 2 * refs["l1r"].length = args["delta_length"]
           /\ IndexOf(BotConnects, "l1l") < IndexOf(BotConnects, "lxbot")
           /\ IndexOf(BotConnects, "lxbot") < IndexOf(BotConnects, "l1r")
           /\ \A sg \in {Segment(a) : a \in top \cup rest} :
                Cardinality({a \in top : Segment(a) = sg})
                  = Cardinality({a \in rest : Segment(a) = sg})

ImbalancedBuilt == pc = "return" /\ args["delta_length"] = 2 /\ refs["l1l"].length = 1

\* the key of the same build with the splitter included
Twin(k) == << k[1], [k[2] EXCEPT !["with_splitter"] = TRUE] >>

\* C6: without the splitter, cin is not a reference of the component, the
\* component has exactly 2 input ports, at the entry ports of the first bends
\* (blt port 1, blb port 2), which are where the splitter's ports would be, and
\* every reference is placed as in the build with the splitter.
NoSplitterVariant ==
    (pc = "return" /\ ~args["with_splitter"]) =>
        /\ "cin" \notin crefs
        /\ Cardinality(West(cports)) = 2
        /\ {Pos(p) : p \in West(cports)}
             = {Pos(WorldPort(refs["blt"], 1)), Pos(WorldPort(refs["blb"], 2))}
        /\ Pos(WorldPort(refs["blt"], 1)) = Pos(comps["cp1"].ports[e1_port_name])
        /\ Pos(WorldPort(refs["blb"], 2)) = Pos(comps["cp1"].ports[e0_port_name])
        /\ Twin(key) \in DOMAIN cache =>
             /\ DOMAIN cache[Twin(key)].references = crefs \cup {"cin"}
             /\ \A a \in crefs : cache[Twin(key)].references[a] = refs[a]

\* a build without the splitter finishes after the build with the splitter
NoSplitterBuilt ==
    /\ pc = "return" /\ ~args["with_splitter"]
    /\ Twin(key) \in DOMAIN cache

\* C7: right after a connect call the connected port is at the destination,
\* facing it, and the reference was rotated by destination.angle - port.angle
\* + 180 on top of the rotation it had.
ConnectMates ==
    lastConnect.valid =>
        LET r == refs[lastConnect.ref]
            p == WorldPort(r, lastConnect.port)
        IN /\ Pos(p) = Pos(lastConnect.dest)
           /\ p.angle = (lastConnect.dest.angle + 180) % 360
           /\ r.rot = (lastConnect.rot + lastConnect.dest.angle
                         - lastConnect.before.angle + 180 + 360) % 360

\* the second connect of blbmrb moved a reference that was already rotated
ConnectMovedPlaced ==
    /\ lastConnect.valid
    /\ lastConnect.ref = "blbmrb" /\ lastConnect.port = 1
    /\ lastConnect.rot = 180
    /\ Pos(lastConnect.before) # Pos(lastConnect.dest)

\* C8: dl is the distance between the two splitter ports the arms attach to
\* (e1 and e0), dr the distance between the two combiner ports the arms attach
\* to, and delta_length_combiner = dl - dr.
OffsetsArePortDistances ==
    (pc \in PastAssert \cup {"assert"}) =>
        LET cp1 == comps["cp1"]
            cp2 == comps["cp2"]
        IN /\ dl = Abs(cp1.ports[e1_port_name].y - cp1.ports[e0_port_name].y)
           /\ CompHasPort(cp2, e0_port_name) =>
                dr = Abs(cp2.ports[e1_port_name].y - cp2.ports[e0_port_name].y)
           /\ delta_length_combiner = dl - dr

\* C9: at the end of the assembly every mating made by a connect call holds.
AllMatingsHold ==
    pc = "return" =>
        \A cc \in {TopConnects[i] : i \in 1..Len(TopConnects)}
                  \cup {BotConnects[i] : i \in 1..Len(BotConnects)} :
            Mated(WorldPort(refs[cc.ref], cc.port), WorldPort(refs[cc.dst], cc.dport))

\* C10: no port key fails to resolve.
NoNotFound == err # "not_found"

====
